---- MODULE Spec2Model ----
(***************************************************************************)
(* Canva app reviewer backend: the analysis orchestrator                   *)
(* (core/analysis_orchestrator.py), the analyzers' result contract         *)
(* (core/analyzers/base_analyzer.py, ui_ux_analyzer.py), the report model  *)
(* (models/response.py) and the analysis endpoints with their background   *)
(* run and progress callbacks (api/v1/analyze.py).                         *)
(*                                                                         *)
(* Python strings that the code inspects character by character (issue     *)
(* titles, code snippets, issue keys) are sequences of one-character       *)
(* strings.  An optional value is a sequence of length 0 (None) or 1.      *)
(***************************************************************************)
EXTENDS Integers, Sequences, FiniteSets, TLC

VARIABLES
    opc,               \* orchestrator: position of analyze_file
    results,           \* orchestrator: what asyncio.gather holds per category
    analysis_results,  \* orchestrator: the dict built at lines 73-80 (as left by aggregation)
    all_issues,        \* orchestrator: the merged list after the deduplication loop, before the sort
    report,            \* orchestrator: the AnalysisResult returned to the caller
    issue_keys,        \* orchestrator: the key of every issue, as _create_issue_key computes it
    score_inputs,      \* _calculate_overall_score called on its own: the results passed in
    score_output,      \* _calculate_overall_score called on its own: the value returned
    scored_issues,     \* _calculate_score called on its own: the issue list passed in
    issue_score,       \* _calculate_score called on its own: the value returned for it
    key_pair,          \* _create_issue_key called on its own: the two issues passed in
    key_out,           \* _create_issue_key called on its own: their keys and the merged list
    analysis_status_store,  \* api: the module-level dict, file id -> status record
    runs,              \* api: the background runs scheduled so far, each with its progress_state
    last_response,     \* api: the answer to the latest request
    tracker_calls      \* progress callbacks called on their own: number of calls made

orch_vars == <<opc, results, analysis_results, all_issues, report, issue_keys>>
score_vars == <<score_inputs, score_output, scored_issues, issue_score, key_pair, key_out>>
api_vars == <<analysis_status_store, runs, last_response, tracker_calls>>
vars == <<orch_vars, score_vars, api_vars>>

(***************************************************************************)
(* Bounds                                                                  *)
(***************************************************************************)
\* longest issue list one analyzer's answer carries
MaxIssues == 2
\* _calculate_overall_score is tried on every score from 0 to MaxLowScore
\* (the ties of the weighted sum lie there) and on 70, 80, 90, 100
MaxLowScore == 10
\* number of calls made to the progress callbacks of one run
MaxCalls == 4
\* number of background runs scheduled by start requests
MaxRuns == 3
\* longest issue list _calculate_score is tried on: eight critical issues
\* take the score to its floor
MaxScoredIssues == 8

(***************************************************************************)
(* Python str operations                                                   *)
(***************************************************************************)
None == <<>>
Some(x) == <<x>>
IsNone(o) == Len(o) = 0
Get(o) == o[1]

UpperChars == <<"A","B","C","D","E","F","G","H","I","J","K","L","M",
                "N","O","P","Q","R","S","T","U","V","W","X","Y","Z">>
LowerChars == <<"a","b","c","d","e","f","g","h","i","j","k","l","m",
                "n","o","p","q","r","s","t","u","v","w","x","y","z">>
Whitespace == {" ", "\t", "\n"}

\* str.lower()
lower_char(c) ==
    IF \E i \in 1..26 : UpperChars[i] = c
    THEN LowerChars[CHOOSE i \in 1..26 : UpperChars[i] = c]
    ELSE c
lower(s) == [i \in 1..Len(s) |-> lower_char(s[i])]

\* str.strip(): what lies between the first and the last non-whitespace character
strip(s) ==
    LET inked == { i \in 1..Len(s) : s[i] \notin Whitespace }
    IN IF inked = {} THEN <<>>
       ELSE SubSeq(s, CHOOSE i \in inked : \A j \in inked : i <= j,
                      CHOOSE i \in inked : \A j \in inked : j <= i)

\* str.replace(old, new): the leftmost occurrence first, none overlapping;
\* rest[i] is the result for s[i:]
replace(s, old, new) ==
    LET n == Len(s)
        m == Len(old)
        match(i) == i + m <= n /\ \A k \in 1..m : s[i + k] = old[k]
        rest[i \in 0..n] ==
            IF i = n THEN <<>>
            ELSE IF match(i) THEN new \o rest[i + m]
            ELSE <<s[i + 1]>> \o rest[i + 1]
    IN rest[0]

\* s[:n]
\* sub in s
contains(s, sub) ==
    \E i \in 1..(Len(s) - Len(sub) + 1) : SubSeq(s, i, i + Len(sub) - 1) = sub

prefix(s, n) == SubSeq(s, 1, IF Len(s) < n THEN Len(s) ELSE n)

\* str(n) for a non-negative int
DigitChars == <<"0","1","2","3","4","5","6","7","8","9">>
int_str(n) ==
    LET str[m \in 0..n] ==
            IF m < 10 THEN <<DigitChars[m + 1]>>
            ELSE str[m \div 10] \o <<DigitChars[(m % 10) + 1]>>
    IN str[n]

\* sep.join(parts)
join(sep, parts) ==
    LET from[i \in 1..(Len(parts) + 1)] ==
            IF i > Len(parts) THEN <<>>
            ELSE IF i = Len(parts) THEN parts[i]
            ELSE parts[i] \o sep \o from[i + 1]
    IN from[1]

(***************************************************************************)
(* Issue keys: AnalysisOrchestrator._create_issue_key                      *)
(***************************************************************************)
SnippetKeyLen == 50

_create_issue_key(issue) ==
    LET title0 == IF IsNone(issue.title) THEN <<>> ELSE Get(issue.title)
        title == strip(lower(title0))
        code_snippet == IF IsNone(issue.code_snippet) THEN <<>>
                        ELSE strip(Get(issue.code_snippet))
        title_normalized ==
            strip(replace(replace(replace(title, <<"v","i","a">>, <<>>),
                                  <<"u","s","i","n","g">>, <<>>),
                          <<" ","-"," ">>, <<" ">>))
        line_part == IF IsNone(issue.line_number) THEN <<>>
                     ELSE << <<"l","i","n","e",":">> \o int_str(Get(issue.line_number)) >>
        code_part == IF code_snippet = <<>> THEN <<>>
                     ELSE << <<"c","o","d","e",":">> \o prefix(code_snippet, SnippetKeyLen) >>
    IN join(<<"|">>, <<title_normalized>> \o line_part \o code_part)

(***************************************************************************)
(* Issues as the analyzers return them (dicts parsed from the model's      *)
(* JSON answer).  category and categories are absent until aggregation.    *)
(***************************************************************************)
Categories == <<"security", "code_quality", "ui_ux">>
CategorySet == {"security", "code_quality", "ui_ux"}
Severities == {"critical", "high", "medium", "low"}

Issue(sev, title, desc, line, snippet, rec) ==
    [severity |-> sev, title |-> Some(title), description |-> desc,
     line_number |-> line, code_snippet |-> snippet, recommendation |-> Some(rec),
     category |-> None, categories |-> None]

XssVia == <<"X","S","S"," ","v","i","a"," ","i","n","n","e","r","H","T","M","L">>
XssUsing == <<"X","S","S"," ","u","s","i","n","g"," ","i","n","n","e","r","H","T","M","L">>
XssDashVia == <<"X","S","S"," ","-"," ","v","i","a"," ","i","n","n","e","r","H","T","M","L">>
DebugDash == <<"D","e","b","u","g"," ","-"," ","l","o","g">>
DebugPadded == <<" ","d","e","b","u","g"," ","l","o","g"," ">>
UnusedVar == <<"U","n","u","s","e","d"," ","v","a","r">>
LogSnippet == <<"l","o","g","(","x",")">>
LogSnippetPadded == <<" ","l","o","g","(","x",")","\n">>

\* what the language model may answer for each analyzer: the answers differ
\* in severity, wording, line and snippet, and one lacks its description
IssuePool(category) ==
    CASE category = "security" ->
           { Issue("critical", XssVia, Some("sec: unsanitised html"), Some(12), None, "sec: sanitise"),
             Issue("low", DebugDash, Some("sec: debug output"), None, Some(LogSnippet), "sec: drop log") }
      [] category = "code_quality" ->
           { Issue("high", XssUsing, Some("cq: innerHTML use"), Some(12), None, "cq: use textContent"),
             Issue("medium", UnusedVar, None, Some(3), None, "cq: remove") }
      [] OTHER ->
           { Issue("medium", XssDashVia, Some("ux: raw html shown"), Some(12), None, "ux: escape"),
             Issue("low", DebugPadded, Some("ux: leftover log"), None, Some(LogSnippetPadded), "ux: remove log") }

RECURSIVE SeqsUpTo(_, _)
SeqsUpTo(S, n) ==
    IF n = 0 THEN { <<>> }
    ELSE LET shorter == SeqsUpTo(S, n - 1)
         IN shorter \cup { Append(q, x) : q \in shorter, x \in S }

\* a "score" key the language model may put into its JSON although the
\* response format does not ask for one: absent, in range, out of range.
\* BaseAnalyzer.analyze builds its own dict and never reads this key, so only
\* the answers to the UI/UX analyzer are enumerated with it.
AnswerScores(category) ==
    IF category = "ui_ux" THEN {None, Some(85), Some(250)} ELSE {None}

\* the answers of the language model: the call fails, the text is not JSON,
\* or it is JSON carrying a list of issues
Responses(category) ==
    { [kind |-> "api_error", issues |-> <<>>, score |-> None],
      [kind |-> "unparsable", issues |-> <<>>, score |-> None] }
    \cup { [kind |-> "json", issues |-> q, score |-> sc] :
              q \in SeqsUpTo(IssuePool(category), MaxIssues), sc \in AnswerScores(category) }

(***************************************************************************)
(* BaseAnalyzer                                                            *)
(***************************************************************************)
\* a recommendation: a plain string, or the dict the parser's fallback builds
PlainRecommendation(text) == [title |-> text, priority |-> "plain string"]
ParsingErrorRecommendation ==
    [title |-> "Analysis Parsing Error", priority |-> "high"]

\* _parse_claude_response: the parsed dict, or the fallback structure on JSONDecodeError
_parse_claude_response(response) ==
    IF response.kind = "json"
    THEN [issues |-> response.issues, recommendations |-> <<>>, score |-> response.score]
    ELSE [issues |-> <<>>, recommendations |-> <<ParsingErrorRecommendation>>, score |-> None]

\* severity.lower() over the severities the answers use
lower_severity(sev) ==
    CASE sev \in {"critical", "CRITICAL", "Critical"} -> "critical"
      [] sev \in {"high", "HIGH", "High"} -> "high"
      [] sev \in {"medium", "MEDIUM", "Medium"} -> "medium"
      [] sev \in {"low", "LOW", "Low"} -> "low"
      [] OTHER -> sev

severity_weights(sev) ==
    CASE sev = "critical" -> 20
      [] sev = "high" -> 10
      [] sev = "medium" -> 5
      [] sev = "low" -> 2
      [] OTHER -> 5

RECURSIVE SumDeductions(_)
SumDeductions(issues) ==
    IF issues = <<>> THEN 0
    ELSE severity_weights(lower_severity(Head(issues).severity)) + SumDeductions(Tail(issues))

\* round() of a value given in halves: ties go to the even integer
round_halves(h) ==
    IF h % 2 = 0 THEN h \div 2
    ELSE IF ((h - 1) \div 2) % 2 = 0 THEN (h - 1) \div 2 ELSE (h + 1) \div 2

\* the deductions taken in full, without the halving beyond 50
_calculate_score_undiminished(issues) ==
    LET d == SumDeductions(issues)
    IN IF 100 - d > 0 THEN 100 - d ELSE 0

\* _calculate_score, computed in halves: beyond 50 a deduction point costs 0.5
_calculate_score(issues) ==
    LET d == SumDeductions(issues)
        deductions2 == IF d > 50 THEN 100 + (d - 50) ELSE 2 * d
        final2 == IF 200 - deductions2 > 0 THEN 200 - deductions2 ELSE 0
    IN round_halves(final2)

Result(kind, has_score, score, issues, recs, error) ==
    [kind |-> kind, has_score |-> has_score, score |-> score, issues |-> issues,
     recommendations |-> recs, error |-> error]

Pending == Result("pending", FALSE, 0, <<>>, <<>>, None)
Raised(msg) == Result("exception", FALSE, 0, <<>>, <<>>, Some(msg))

\* analyze with a parser that lets the decoding error propagate
BaseAnalyzer_analyze_reraising(response) ==
    IF response.kind # "json" THEN Raised("JSONDecodeError")
    ELSE LET parsed_result == _parse_claude_response(response)
         IN Result("result", TRUE, _calculate_score(parsed_result.issues),
                   parsed_result.issues, parsed_result.recommendations, None)

\* BaseAnalyzer.analyze: raises when the API call fails, otherwise scores the parsed issues
BaseAnalyzer_analyze(response) ==
    IF response.kind = "api_error" THEN Raised("API Error")
    ELSE LET parsed_result == _parse_claude_response(response)
         IN Result("result", TRUE, _calculate_score(parsed_result.issues),
                   parsed_result.issues, parsed_result.recommendations, None)

(***************************************************************************)
(* UIUXAnalyzer: returns the parsed dict as it is, so its score is the one  *)
(* the answer carries, if any; when every call fails it returns its own    *)
(* error result instead of raising                                         *)
(***************************************************************************)
AnalysisFailedTitle ==
    <<"A","n","a","l","y","s","i","s"," ","F","a","i","l","e","d">>

UIUX_create_error_result(error_message) ==
    Result("result", TRUE, 0,
           << Issue("critical", AnalysisFailedTitle, Some("ux: could not be completed"),
                    None, None, "check the file format") >>,
           << PlainRecommendation("valid component"), PlainRecommendation("check syntax"),
              PlainRecommendation("upload again") >>, None)

UIUXAnalyzer_analyze(response) ==
    IF response.kind = "api_error" THEN UIUX_create_error_result("API Error")
    ELSE LET parsed == _parse_claude_response(response)
         IN Result("result", ~IsNone(parsed.score),
                   IF IsNone(parsed.score) THEN 0 ELSE Get(parsed.score),
                   parsed.issues, parsed.recommendations, None)

\* self.analyzers[category].analyze
analyze(category, response) ==
    IF category = "ui_ux" THEN UIUXAnalyzer_analyze(response)
    ELSE BaseAnalyzer_analyze(response)

(***************************************************************************)
(* Python float arithmetic (IEEE 754 binary64) for the weighted score.     *)
(* Every value that occurs is either 0 or lies in [2^-2, 2^10), so it is   *)
(* an integer number of units of 2^-54, kept as three limbs of 21 bits,    *)
(* least significant first.  A binary64 value has 53 significant bits.     *)
(***************************************************************************)
RECURSIVE pow2(_)
pow2(k) == IF k = 0 THEN 1 ELSE 2 * pow2(k - 1)

LimbBase == pow2(21)

normalize(l) ==
    LET l0 == l[1] % LimbBase
        t1 == l[2] + (l[1] \div LimbBase)
    IN <<l0, t1 % LimbBase, l[3] + (t1 \div LimbBase)>>

RECURSIVE bit_length(_)
bit_length(n) == IF n = 0 THEN 0 ELSE 1 + bit_length(n \div 2)

\* round to nearest binary64, ties to even: the top limb holds bits 42 and up,
\* so a value of more than 53 bits has more than 11 bits there
round_binary64(l) ==
    LET sh == bit_length(l[3]) - 11
    IN IF sh <= 0 THEN l
       ELSE LET p == pow2(sh)
                rem == l[1] % p
                odd == (l[1] \div p) % 2 = 1
            IN IF rem > p \div 2 \/ (rem = p \div 2 /\ odd)
               THEN normalize(<<l[1] - rem + p, l[2], l[3]>>)
               ELSE <<l[1] - rem, l[2], l[3]>>

\* int * float
float_mul_int(w, n) == round_binary64(normalize(<<w[1] * n, w[2] * n, w[3] * n>>))
\* float + float
float_add(a, b) == round_binary64(normalize(<<a[1] + b[1], a[2] + b[2], a[3] + b[3]>>))
FloatZero == <<0, 0, 0>>

\* round(x) of a float: nearest integer, ties to the even one
\* (one unit is 2^54 = 4096 * 2^42, one half is 2048 in the top limb)
round_float(l) ==
    LET int_part == l[3] \div 4096
        frac_top == l[3] % 4096
        rest == l[1] > 0 \/ l[2] > 0
    IN IF frac_top > 2048 \/ (frac_top = 2048 /\ rest) THEN int_part + 1
       ELSE IF frac_top = 2048 /\ int_part % 2 = 1 THEN int_part + 1
       ELSE int_part

\* the binary64 nearest to 0.30 is 0x1.3333333333333p-2 and to 0.40 is
\* 0x1.999999999999ap-2: 5404319552844595 and 7205759403792794 units
Float_0_30 == <<1258291, 1677721, 1228>>
Float_0_40 == <<1677722, 838860, 1638>>

(***************************************************************************)
(* AnalysisOrchestrator: scoring                                           *)
(***************************************************************************)
\* the weights of security and ui_ux exchanged
SCORING_WEIGHTS_swapped(category) ==
    CASE category = "security" -> Float_0_40
      [] category = "code_quality" -> Float_0_30
      [] OTHER -> Float_0_30

SCORING_WEIGHTS(category) ==
    CASE category = "security" -> Float_0_30
      [] category = "code_quality" -> Float_0_30
      [] OTHER -> Float_0_40

\* result.get("score", 0)
get_score(result) == IF result.has_score THEN result.score ELSE 0

_calculate_overall_score(res) ==
    LET add(total, category) ==
            float_add(total, float_mul_int(SCORING_WEIGHTS(category), get_score(res[category])))
    IN round_float(add(add(add(FloatZero, "security"), "code_quality"), "ui_ux"))

(***************************************************************************)
(* AnalysisOrchestrator: fallback and error results                        *)
(***************************************************************************)
\* f"{category.replace('_', ' ').title()} Analysis Failed"
FallbackTitle(category) ==
    CASE category = "security" ->
           <<"S","e","c","u","r","i","t","y"," ","A","n","a","l","y","s","i","s"," ","F","a","i","l","e","d">>
      [] category = "code_quality" ->
           <<"C","o","d","e"," ","Q","u","a","l","i","t","y"," ","A","n","a","l","y","s","i","s"," ","F","a","i","l","e","d">>
      [] OTHER ->
           <<"U","i"," ","U","x"," ","A","n","a","l","y","s","i","s"," ","F","a","i","l","e","d">>

\* a fallback whose synthetic issue is filed as high instead of critical
_create_fallback_result_high(category, error_message) ==
    Result("result", TRUE, 0,
           << Issue("high", FallbackTitle(category),
                    Some("analyzer encountered an error: " \o error_message),
                    None, None, "check the file format and try again") >>,
           << PlainRecommendation("re-run analysis after fixing file issues") >>,
           Some(error_message))

_create_fallback_result(category, error_message) ==
    Result("result", TRUE, 0,
           << Issue("critical", FallbackTitle(category),
                    Some("analyzer encountered an error: " \o error_message),
                    None, None, "check the file format and try again") >>,
           << PlainRecommendation("re-run analysis after fixing file issues") >>,
           Some(error_message))

SystemErrorTitle ==
    <<"A","n","a","l","y","s","i","s"," ","S","y","s","t","e","m"," ","E","r","r","o","r">>

\* pydantic builds an AnalysisIssue from each dict: the declared fields are kept,
\* any other key (categories) is ignored
AnalysisIssue(d) ==
    [severity |-> d.severity, title |-> d.title, description |-> d.description,
     line_number |-> d.line_number, code_snippet |-> d.code_snippet,
     recommendation |-> d.recommendation, category |-> d.category]

\* title, description and recommendation are required strings
valid_issue(d) ==
    ~IsNone(d.title) /\ ~IsNone(d.description) /\ ~IsNone(d.recommendation)

NoBreakdown == [c \in {} |-> 0]
NoSummary == [kind |-> "none", score |-> 0, total_issues |-> 0, priority |-> "none", error |-> None]
NoReport ==
    [kind |-> "none", overall_score |-> 0, score_breakdown |-> NoBreakdown,
     total_issues |-> 0, critical_issues |-> 0, high_issues |-> 0,
     issues |-> <<>>, recommendations |-> <<>>, summary |-> NoSummary]

_create_error_result(error_message) ==
    [kind |-> "error", overall_score |-> 0, score_breakdown |-> NoBreakdown,
     total_issues |-> 1, critical_issues |-> 1, high_issues |-> 0,
     issues |-> << AnalysisIssue([Issue("critical", SystemErrorTitle,
                                        Some("critical error: " \o error_message), None, None,
                                        "upload the file again")
                                  EXCEPT !.category = Some("system")]) >>,
     recommendations |-> << PlainRecommendation("Re-upload the file and try analysis again.") >>,
     summary |-> [kind |-> "failed", score |-> 0, total_issues |-> 1, priority |-> "none",
                  error |-> Some(error_message)]]

(***************************************************************************)
(* The key of every issue that can occur, computed once by                 *)
(* _create_issue_key when the orchestrator starts and kept in issue_keys:  *)
(* the key reads the title, the line number and the snippet only, and      *)
(* aggregation never writes these.                                         *)
(***************************************************************************)
Range(q) == { q[i] : i \in 1..Len(q) }

key_fields(issue) ==
    [title |-> issue.title, line_number |-> issue.line_number,
     code_snippet |-> issue.code_snippet]

KnownIssues ==
    { key_fields(i) : i \in UNION { IssuePool(c) : c \in CategorySet } }
    \cup { key_fields(_create_fallback_result(c, "API Error").issues[1]) : c \in CategorySet }
    \cup { key_fields(UIUX_create_error_result("API Error").issues[1]) }
    \cup { key_fields(_create_error_result("error").issues[1]) }

IssueKeys == { <<i, _create_issue_key(i)>> : i \in KnownIssues }

issue_key_of(issue) ==
    (CHOOSE entry \in issue_keys : entry[1] = key_fields(issue))[2]

(***************************************************************************)
(* AnalysisOrchestrator._aggregate_results                                 *)
(*                                                                         *)
(* all_issues holds the very dicts of the analyzers' issue lists, so an    *)
(* entry is kept as a reference <<category, index>> into the results and a *)
(* write to an entry is a write to the result it came from.                *)
(***************************************************************************)
issue_at(res, ref) == res[ref[1]].issues[ref[2]]

RECURSIVE flatten_refs(_, _)
flatten_refs(res, cats) ==
    IF cats = <<>> THEN <<>>
    ELSE [i \in 1..Len(res[Head(cats)].issues) |-> <<Head(cats), i>>]
         \o flatten_refs(res, Tail(cats))

\* the loop without line 144: the key of a collected issue is not remembered
mark_seen_forgotten(seen, issue_key) == seen

\* all_issues.insert(0, issue) in place of the append of line 145
collect_issue_at_front(all, ref) == <<ref>> \o all

\* seen_issues.add(issue_key)
mark_seen(seen, issue_key) == seen \cup {issue_key}

\* all_issues.append(issue)
collect_issue(all, ref) == Append(all, ref)

\* next(existing for existing in all_issues if key(existing) == issue_key)
existing_issue(res, all, issue_key) ==
    all[CHOOSE k \in 1..Len(all) :
            /\ issue_key_of(issue_at(res, all[k])) = issue_key
            /\ \A j \in 1..(k - 1) : issue_key_of(issue_at(res, all[j])) # issue_key]

\* one pass of the inner loop body (lines 138-158) for the issue at ref
merge_issue(st, ref) ==
    LET category == ref[1]
        res1 == [st.res EXCEPT ![category].issues[ref[2]].category = Some(category)]
        issue_key == issue_key_of(issue_at(res1, ref))
    IN IF issue_key \notin st.seen
       THEN [res |-> res1, all |-> collect_issue(st.all, ref),
             seen |-> mark_seen(st.seen, issue_key)]
       ELSE LET e == existing_issue(res1, st.all, issue_key)
                existing == issue_at(res1, e)
                cats0 == IF IsNone(existing.categories)
                         THEN <<Get(existing.category)>>
                         ELSE Get(existing.categories)
                cats1 == IF category \in Range(cats0) THEN cats0
                         ELSE Append(cats0, category)
            IN [res |-> [res1 EXCEPT ![e[1]].issues[e[2]].categories = Some(cats1)],
                all |-> st.all, seen |-> st.seen]

RECURSIVE merge_all(_, _)
merge_all(st, refs) ==
    IF refs = <<>> THEN st ELSE merge_all(merge_issue(st, Head(refs)), Tail(refs))

\* the deduplication loop (lines 130-158) over the results in dict order
deduplicate(res) ==
    merge_all([res |-> res, all |-> <<>>, seen |-> {}], flatten_refs(res, Categories))

\* the dicts all_issues refers to
materialize(st) == [k \in 1..Len(st.all) |-> issue_at(st.res, st.all[k])]

\* aggregation without the sort of lines 160-162
sort_by_severity_skipped(issues) == issues

severity_order(sev) ==
    CASE sev = "critical" -> 0
      [] sev = "high" -> 1
      [] sev = "medium" -> 2
      [] OTHER -> 3

\* a sort that is not stable: entries of equal rank come out in reverse
sort_by_severity_unstable(issues) ==
    LET reversed == [k \in 1..Len(issues) |-> issues[Len(issues) + 1 - k]]
        of_rank(r) == SelectSeq(reversed, LAMBDA x : severity_order(x.severity) = r)
    IN of_rank(0) \o of_rank(1) \o of_rank(2) \o of_rank(3)

\* list.sort(key=...) is stable: entries of equal rank keep their order
sort_by_severity(issues) ==
    LET of_rank(r) == SelectSeq(issues, LAMBDA x : severity_order(x.severity) = r)
    IN of_rank(0) \o of_rank(1) \o of_rank(2) \o of_rank(3)

count_severity(issues, sev) ==
    Cardinality({ i \in 1..Len(issues) : issues[i].severity = sev })

\* _get_severity_breakdown
_get_severity_breakdown(issues) ==
    [sev \in Severities |-> count_severity(issues, sev)]

category_breakdown(category, result) ==
    [score |-> get_score(result),
     weight |-> SCORING_WEIGHTS(category),
     weighted_score |-> float_mul_int(SCORING_WEIGHTS(category), get_score(result)),
     issue_count |-> Len(result.issues),
     severity_breakdown |-> _get_severity_breakdown(result.issues)]

\* _generate_overall_recommendations: the banner, one line per category, the top three
_generate_overall_recommendations(res, overall_score) ==
    LET banner == IF overall_score < 50 THEN "URGENT"
                  ELSE IF overall_score < 70 THEN "IMPORTANT"
                  ELSE IF overall_score < 85 THEN "GOOD" ELSE "EXCELLENT"
        line(c) == IF count_severity(res[c].issues, "critical") > 0 THEN "critical issues need immediate fixes"
                   ELSE IF get_score(res[c]) < 60 THEN "focus on major concerns"
                   ELSE IF get_score(res[c]) >= 90 THEN "excellent standards"
                   ELSE "good foundation"
        every == res["security"].issues \o res["code_quality"].issues \o res["ui_ux"].issues
        top == prefix(sort_by_severity(every), 3)
    IN << [title |-> banner, priority |-> "banner"] >>
       \o [k \in 1..3 |-> [title |-> line(Categories[k]), priority |-> Categories[k]]]
       \o (IF every = <<>> THEN <<>>
           ELSE << [title |-> "Next Steps", priority |-> "top 3"] >>
                \o [k \in 1..Len(top) |-> [title |-> "next step", priority |-> top[k].severity]])

\* _generate_summary
_generate_summary(overall_score, total_issues, critical_issues, high_issues) ==
    [kind |-> IF overall_score >= 90 THEN "excellent"
              ELSE IF overall_score >= 80 THEN "good"
              ELSE IF overall_score >= 60 THEN "moderate" ELSE "limited",
     score |-> overall_score, total_issues |-> total_issues,
     priority |-> IF critical_issues > 0 THEN "critical"
                  ELSE IF high_issues > 0 THEN "high" ELSE "none",
     error |-> None]

\* _aggregate_results: the report and the results as the loop leaves them, or
\* the ValidationError that building the AnalysisResult raises
_aggregate_results(res) ==
    LET overall_score == _calculate_overall_score(res)
        st == deduplicate(res)
        merged == materialize(st)
        sorted == sort_by_severity(merged)
        total_issues == Len(sorted)
        critical_issues == count_severity(sorted, "critical")
        high_issues == count_severity(sorted, "high")
    IN [raised |-> \E i \in 1..Len(sorted) : ~valid_issue(sorted[i]),
        error |-> "validation error for AnalysisResult",
        results |-> st.res,
        merged |-> merged,
        value |->
          [kind |-> "aggregated", overall_score |-> overall_score,
           score_breakdown |-> [c \in CategorySet |-> category_breakdown(c, st.res[c])],
           total_issues |-> total_issues, critical_issues |-> critical_issues,
           high_issues |-> high_issues,
           issues |-> [k \in 1..Len(sorted) |-> AnalysisIssue(sorted[k])],
           recommendations |-> _generate_overall_recommendations(st.res, overall_score),
           summary |-> _generate_summary(overall_score, total_issues, critical_issues, high_issues)]]

\* lines 73-80: an exception from gather becomes the category's fallback result
substitute_fallback(category, result) ==
    IF result.kind = "exception"
    THEN _create_fallback_result(category, Get(result.error))
    ELSE result

\* analyze_file without its except clause: a failure of aggregation propagates
orchestration_outcome_reraising(agg) ==
    IF agg.raised THEN [pc |-> "raised", report |-> NoReport]
    ELSE [pc |-> "returned", report |-> agg.value]

\* lines 83-100: the aggregated report, or the minimal report of the except branch
orchestration_outcome(agg) ==
    IF agg.raised THEN [pc |-> "returned", report |-> _create_error_result(agg.error)]
    ELSE [pc |-> "returned", report |-> agg.value]

(***************************************************************************)
(* AnalysisOrchestrator.analyze_file                                       *)
(***************************************************************************)
OrchIdle ==
    /\ opc = "idle"
    /\ results = [c \in CategorySet |-> Pending]
    /\ analysis_results = [c \in CategorySet |-> Pending]
    /\ all_issues = <<>>
    /\ report = NoReport
    /\ issue_keys = {}

\* none of the scoring and key functions is being called on its own
ScoreIdle ==
    /\ score_inputs = [c \in CategorySet |-> None] /\ score_output = None
    /\ scored_issues = <<>> /\ issue_score = 100
    /\ key_pair = <<>> /\ key_out = None

NoResponse == [op |-> "none", file_id |-> "none", status_code |-> 0, success |-> FALSE,
               status |-> "none", progress |-> 0, result |-> None]

ApiIdle ==
    /\ analysis_status_store = <<>>
    /\ runs = <<>>
    /\ last_response = NoResponse
    /\ tracker_calls = 0

OrchInit ==
    /\ ScoreIdle
    /\ ApiIdle
    /\ opc = "gather"
    /\ results = [c \in CategorySet |-> Pending]
    /\ analysis_results = [c \in CategorySet |-> Pending]
    /\ all_issues = <<>>
    /\ report = NoReport
    /\ issue_keys = IssueKeys

\* one task of asyncio.gather resolves: _run_analyzer returns or re-raises
\* what the analyzer did with the language model's answer
_run_analyzer(category) ==
    /\ opc = "gather"
    /\ results[category].kind = "pending"
    /\ \E response \in Responses(category) :
          results' = [results EXCEPT ![category] = analyze(category, response)]
    /\ UNCHANGED <<opc, analysis_results, all_issues, report, issue_keys, score_vars, api_vars>>

\* gather without return_exceptions: the first exception ends the wait
gather_done_at_first_exception ==
    \/ \A c \in CategorySet : results[c].kind # "pending"
    \/ \E c \in CategorySet : results[c].kind = "exception"

\* asyncio.gather(*analysis_tasks, return_exceptions=True) returns when every
\* task has returned or raised
gather_done == \A c \in CategorySet : results[c].kind # "pending"

\* gather has returned: lines 73-95, or the except branch of lines 97-100
analyze_file_return ==
    /\ opc = "gather"
    /\ gather_done
    /\ LET res == [c \in CategorySet |-> substitute_fallback(c, results[c])]
           agg == _aggregate_results(res)
       IN /\ analysis_results' = agg.results
          /\ all_issues' = agg.merged
          /\ report' = orchestration_outcome(agg).report
          /\ opc' = orchestration_outcome(agg).pc
    /\ UNCHANGED <<results, issue_keys, score_vars, api_vars>>

OrchNext ==
    \/ \E c \in CategorySet : _run_analyzer(c)
    \/ analyze_file_return

SpecOrch == OrchInit /\ [][OrchNext]_vars

(***************************************************************************)
(* _calculate_overall_score on its own, over results with any scores       *)
(***************************************************************************)
ScoreValues == (0..MaxLowScore) \cup {70, 80, 90, 100}

\* a result dict with the given "score" key, or without one
scored_result(score) ==
    Result("result", ~IsNone(score), IF IsNone(score) THEN 0 ELSE Get(score), <<>>, <<>>, None)

ScoreInit ==
    /\ OrchIdle
    /\ ApiIdle
    /\ score_inputs \in [CategorySet -> {None} \cup { Some(v) : v \in ScoreValues }]
    /\ score_output = None
    /\ scored_issues = <<>> /\ issue_score = 100
    /\ key_pair = <<>> /\ key_out = None

calculate_overall_score ==
    /\ IsNone(score_output)
    /\ score_output' =
          Some(_calculate_overall_score([c \in CategorySet |-> scored_result(score_inputs[c])]))
    /\ UNCHANGED <<score_inputs, scored_issues, issue_score, key_pair, key_out, orch_vars, api_vars>>

ScoreNext == calculate_overall_score

SpecScore == ScoreInit /\ [][ScoreNext]_vars

(***************************************************************************)
(* BaseAnalyzer._calculate_score called on its own: on the empty issue     *)
(* list and on every list grown from it by one more issue at a time        *)
(***************************************************************************)
\* the severities of the issues passed in, one of them capitalised
SeverityInputs == {"critical", "High", "medium", "low"}

CalcInit ==
    /\ OrchIdle
    /\ ApiIdle
    /\ score_inputs = [c \in CategorySet |-> None] /\ score_output = None
    /\ key_pair = <<>> /\ key_out = None
    /\ scored_issues = <<>>
    /\ issue_score = _calculate_score(<<>>)

calculate_score ==
    /\ Len(scored_issues) < MaxScoredIssues
    /\ \E sev \in SeverityInputs :
          LET issues == Append(scored_issues, [severity |-> sev])
          IN /\ scored_issues' = issues
             /\ issue_score' = _calculate_score(issues)
    /\ UNCHANGED <<score_inputs, score_output, key_pair, key_out, orch_vars, api_vars>>

SpecCalc == CalcInit /\ [][calculate_score]_vars

(***************************************************************************)
(* AnalysisOrchestrator._create_issue_key called on its own, on two issues *)
(* that two analyzers return, and the merge of the two by aggregation      *)
(***************************************************************************)
DebugLog == <<"D","e","b","u","g"," ","l","o","g">>

\* a title that holds the separator and the text of a line part
DebugLogLine12 ==
    <<"D","e","b","u","g"," ","l","o","g","|","l","i","n","e",":","1","2">>

\* a snippet of SnippetKeyLen + 1 characters, the last of them c
LongSnippet(c) == [i \in 1..(SnippetKeyLen + 1) |-> IF i > SnippetKeyLen THEN c ELSE "x"]

KeyIssues ==
    { Issue("low", title, Some("leftover log"), line, snippet, "remove log") :
        title \in {DebugLog, DebugLogLine12},
        line \in {None, Some(12), Some(3)},
        snippet \in {None, Some(LogSnippet), Some(LogSnippetPadded),
                     Some(LongSnippet("a")), Some(LongSnippet("b"))} }

\* the results of a run in which security returned the first issue of the
\* pair and code_quality the second
pair_results(pair) ==
    [c \in CategorySet |->
        Result("result", TRUE, 98,
               IF c = "security" THEN <<pair[1]>>
               ELSE IF c = "code_quality" THEN <<pair[2]>> ELSE <<>>,
               <<>>, None)]

KeyInit ==
    /\ ApiIdle
    /\ opc = "idle"
    /\ results = [c \in CategorySet |-> Pending]
    /\ analysis_results = [c \in CategorySet |-> Pending]
    /\ all_issues = <<>>
    /\ report = NoReport
    /\ score_inputs = [c \in CategorySet |-> None] /\ score_output = None
    /\ scored_issues = <<>> /\ issue_score = 100
    /\ \E a \in KeyIssues, b \in KeyIssues :
          /\ key_pair = <<a, b>>
          /\ issue_keys = { <<key_fields(i), _create_issue_key(i)>> : i \in {a, b} }
    /\ key_out = None

create_issue_keys ==
    /\ IsNone(key_out)
    /\ key_out' = Some([first |-> _create_issue_key(key_pair[1]),
                        second |-> _create_issue_key(key_pair[2]),
                        issues |-> _aggregate_results(pair_results(key_pair)).value.issues])
    /\ UNCHANGED <<key_pair, score_inputs, score_output, scored_issues, issue_score,
                   orch_vars, api_vars>>

SpecKey == KeyInit /\ [][create_issue_keys]_vars

(***************************************************************************)
(* api/v1/analyze.py: the status records and the progress callbacks that   *)
(* run_analysis_background defines over its progress_state                 *)
(***************************************************************************)
MsgQueued ==
    <<"A","n","a","l","y","s","i","s"," ","q","u","e","u","e","d"," ","f",
      "o","r"," ","p","r","o","c","e","s","s","i","n","g">>

MsgInitializing ==
    <<"I","n","i","t","i","a","l","i","z","i","n","g"," ","a","n","a","l",
      "y","s","i","s",".",".",".">>

MsgStartingParallel ==
    <<"S","t","a","r","t","i","n","g"," ","S","e","c","u","r","i","t","y",
      ","," ","C","o","d","e"," ","Q","u","a","l","i","t","y",","," ","a",
      "n","d"," ","U","I","/","U","X"," ","a","n","a","l","y","s","i","s",
      ".",".",".">>

MsgAggregating ==
    <<"A","g","g","r","e","g","a","t","i","n","g"," ","a","n","a","l","y",
      "s","i","s"," ","r","e","s","u","l","t","s",".",".",".">>

MsgCalculating ==
    <<"C","a","l","c","u","l","a","t","i","n","g"," ","f","i","n","a","l",
      " ","s","c","o","r","e","s",".",".",".">>

MsgCompleted ==
    <<"A","n","a","l","y","s","i","s"," ","c","o","m","p","l","e","t","e",
      "d"," ","s","u","c","c","e","s","s","f","u","l","l","y">>

MsgFailedPrefix ==
    <<"A","n","a","l","y","s","i","s"," ","f","a","i","l","e","d",":"," ">>

SecurityName ==
    <<"S","e","c","u","r","i","t","y">>

CodeQualityName ==
    <<"C","o","d","e"," ","Q","u","a","l","i","t","y">>

UIUXName ==
    <<"U","I","/","U","X">>

WordCompleted ==
    <<"c","o","m","p","l","e","t","e","d">>

WordSecurity ==
    <<"s","e","c","u","r","i","t","y">>

WordCodeQuality ==
    <<"c","o","d","e"," ","q","u","a","l","i","t","y">>

WordUISlashUX ==
    <<"u","i","/","u","x">>

WordUISpaceUX ==
    <<"u","i"," ","u","x">>

\* the dict start() stores: the keys result and error are absent
status_record(status, progress, message) ==
    [status |-> status, progress |-> progress, message |-> message,
     result |-> None, error |-> None]

\* progress_state as run_analysis_background creates it
initial_progress_state ==
    [max_progress |-> 0, analyzers_completed |-> 0, total_analyzers |-> 3,
     current_stage |-> "initializing"]

\* tr is the pair of progress_state and analysis_status_store[file_id];
\* here an update is accepted only above the maximum, with no special stages
update_progress_strict(tr, progress, message) ==
    IF progress > tr.progress_state.max_progress
    THEN [progress_state |-> [tr.progress_state EXCEPT !.max_progress = progress],
          record |-> [tr.record EXCEPT !.progress = progress, !.message = message]]
    ELSE tr

\* the callbacks read and write progress_state and analysis_status_store[file_id]:
\* tr is the pair of the two
update_progress(tr, progress, message) ==
    IF progress > tr.progress_state.max_progress \/ progress \in {92, 95, 100}
    THEN [progress_state |-> [tr.progress_state EXCEPT !.max_progress = progress],
          record |-> [tr.record EXCEPT !.progress = progress, !.message = message]]
    ELSE tr

\* the product rounded to the nearest integer instead of truncated
analysis_progress_rounded(completed, total) ==
    (2 * completed * 80 + total) \div (2 * total)

\* int((completed / total) * 80): the quotient is a float, the product is
\* truncated; for every count the result is the integer quotient of 80 * completed
analysis_progress(completed, total) == (completed * 80) \div total

\* a fixed progress per analyzer instead of one computed from the count
update_analyzer_completion_fixed_ranges(tr, analyzer_name) ==
    LET completed == tr.progress_state.analyzers_completed + 1
        calculated_progress == IF analyzer_name = SecurityName THEN 35
                               ELSE IF analyzer_name = CodeQualityName THEN 65 ELSE 90
        counted == [tr.progress_state EXCEPT !.analyzers_completed = completed]
    IN IF calculated_progress > counted.max_progress
       THEN [progress_state |-> [counted EXCEPT !.max_progress = calculated_progress],
             record |-> [tr.record EXCEPT !.progress = calculated_progress,
                                          !.message = analyzer_name]]
       ELSE [progress_state |-> counted, record |-> tr.record]

update_analyzer_completion(tr, analyzer_name) ==
    LET completed == tr.progress_state.analyzers_completed + 1
        total == tr.progress_state.total_analyzers
        calculated_progress == 10 + analysis_progress(completed, total)
        message == analyzer_name \o <<" ","a","n","a","l","y","s","i","s"," ">>
                   \o WordCompleted \o <<" ","(">> \o int_str(completed) \o <<"/">>
                   \o int_str(total) \o <<" ","a","n","a","l","y","z","e","r","s"," ","d","o","n","e",")">>
        counted == [tr.progress_state EXCEPT !.analyzers_completed = completed]
    IN IF calculated_progress > counted.max_progress
       THEN [progress_state |-> [counted EXCEPT !.max_progress = calculated_progress],
             record |-> [tr.record EXCEPT !.progress = calculated_progress,
                                          !.message = message]]
       ELSE [progress_state |-> counted, record |-> tr.record]

\* an analyzer start message stores the progress it reports
parallel_progress_callback_reporting(tr, progress, message) ==
    LET m == lower(message)
    IN IF contains(m, WordCompleted)
       THEN IF contains(m, WordSecurity) THEN update_analyzer_completion(tr, SecurityName)
            ELSE IF contains(m, WordCodeQuality)
                 THEN update_analyzer_completion(tr, CodeQualityName)
            ELSE IF contains(m, WordUISlashUX) \/ contains(m, WordUISpaceUX)
                 THEN update_analyzer_completion(tr, UIUXName)
            ELSE tr
       ELSE IF progress >= 92 THEN update_progress(tr, progress, message)
       ELSE IF progress <= 15 THEN update_progress(tr, progress, message)
       ELSE [tr EXCEPT !.record.progress = progress,
                       !.record.message = message]

parallel_progress_callback(tr, progress, message) ==
    LET m == lower(message)
    IN IF contains(m, WordCompleted)
       THEN IF contains(m, WordSecurity) THEN update_analyzer_completion(tr, SecurityName)
            ELSE IF contains(m, WordCodeQuality)
                 THEN update_analyzer_completion(tr, CodeQualityName)
            ELSE IF contains(m, WordUISlashUX) \/ contains(m, WordUISpaceUX)
                 THEN update_analyzer_completion(tr, UIUXName)
            ELSE tr
       ELSE IF progress >= 92 THEN update_progress(tr, progress, message)
       ELSE IF progress <= 15 THEN update_progress(tr, progress, message)
       ELSE [tr EXCEPT !.record.progress = tr.progress_state.max_progress,
                       !.record.message = message]

\* lines 323-328
completed_record(record, analysis_result) ==
    [record EXCEPT !.status = "completed", !.progress = 100, !.message = MsgCompleted,
                   !.result = Some(analysis_result)]

\* the failure recorded without the reset of the progress
failed_record_keeping_progress(record, error) ==
    [record EXCEPT !.status = "failed",
                   !.message = MsgFailedPrefix \o error, !.error = Some(error)]

\* lines 336-341
failed_record(record, error) ==
    [record EXCEPT !.status = "failed", !.progress = 0,
                   !.message = MsgFailedPrefix \o error, !.error = Some(error)]

(***************************************************************************)
(* The progress callbacks of one run, called on their own: the run stands  *)
(* at line 307, after its update to 10, and any callback may be called     *)
(* with any progress value and message until the run completes or fails.   *)
(***************************************************************************)
TrackedFile == "f1"

CbSecurityCompleted ==
    <<"S","e","c","u","r","i","t","y"," ","a","n","a","l","y","s","i","s",
      " ","c","o","m","p","l","e","t","e","d">>

CbCodeQualityCompleted ==
    <<"C","o","d","e"," ","Q","u","a","l","i","t","y"," ","a","n","a","l",
      "y","s","i","s"," ","C","O","M","P","L","E","T","E","D">>

CbUIUXCompleted ==
    <<"U","I","/","U","X"," ","a","n","a","l","y","s","i","s"," ","c","o",
      "m","p","l","e","t","e","d">>

CbCompleted ==
    <<"A","n","a","l","y","s","i","s"," ","c","o","m","p","l","e","t","e",
      "d">>

CbStarting ==
    <<"S","t","a","r","t","i","n","g"," ","s","e","c","u","r","i","t","y",
      " ","a","n","a","l","y","s","i","s">>

ErrAnalysis ==
    <<"a","n","a","l","y","s","i","s"," ","e","r","r","o","r">>

CallbackMessages ==
    { CbSecurityCompleted, CbCodeQualityCompleted, CbUIUXCompleted, CbCompleted,
      CbStarting, MsgAggregating }

ProgressValues == {5, 15, 50, 92, 95, 100, 120}

AnalyzerNames == {SecurityName, CodeQualityName, UIUXName}

\* the AnalysisResult a run stores: its content plays no part in the status record
StoredReport == "analysis_result"

background_run(file_id, pc, progress_state) ==
    [file_id |-> file_id, pc |-> pc, progress_state |-> progress_state]

\* analysis_status_store[file_id] = record
put(store, file_id, record) ==
    [f \in DOMAIN store \cup {file_id} |-> IF f = file_id THEN record ELSE store[f]]

\* del analysis_status_store[file_id]
delete(store, file_id) == [f \in DOMAIN store \ {file_id} |-> store[f]]

tracker(r) ==
    [progress_state |-> runs[r].progress_state,
     record |-> analysis_status_store[runs[r].file_id]]

TrackerInit ==
    /\ OrchIdle
    /\ ScoreIdle
    /\ analysis_status_store =
          put(<<>>, TrackedFile, status_record("running", 10, MsgStartingParallel))
    /\ runs = << background_run(TrackedFile, "analyzing",
                                [initial_progress_state EXCEPT !.max_progress = 10]) >>
    /\ last_response = NoResponse
    /\ tracker_calls = 0

Calling == runs[1].pc = "analyzing" /\ tracker_calls < MaxCalls

\* the callback's writes, and one more call counted
called(tr) ==
    /\ runs' = [runs EXCEPT ![1].progress_state = tr.progress_state]
    /\ analysis_status_store' = [analysis_status_store EXCEPT ![TrackedFile] = tr.record]
    /\ tracker_calls' = tracker_calls + 1
    /\ UNCHANGED <<last_response, orch_vars, score_vars>>

call_parallel_progress_callback ==
    /\ Calling
    /\ \E progress \in ProgressValues, message \in CallbackMessages :
          called(parallel_progress_callback(tracker(1), progress, message))

call_update_progress ==
    /\ Calling
    /\ \E progress \in ProgressValues, message \in {MsgAggregating, MsgCalculating} :
          called(update_progress(tracker(1), progress, message))

call_update_analyzer_completion ==
    /\ Calling
    /\ \E analyzer_name \in AnalyzerNames :
          called(update_analyzer_completion(tracker(1), analyzer_name))

\* lines 323-328
tracked_run_completes ==
    /\ runs[1].pc = "analyzing"
    /\ analysis_status_store' =
          [analysis_status_store EXCEPT
              ![TrackedFile] = completed_record(analysis_status_store[TrackedFile], StoredReport)]
    /\ runs' = [runs EXCEPT ![1].pc = "done"]
    /\ UNCHANGED <<last_response, tracker_calls, orch_vars, score_vars>>

\* lines 332-341
tracked_run_fails ==
    /\ runs[1].pc = "analyzing"
    /\ analysis_status_store' =
          [analysis_status_store EXCEPT
              ![TrackedFile] = failed_record(analysis_status_store[TrackedFile], ErrAnalysis)]
    /\ runs' = [runs EXCEPT ![1].pc = "done"]
    /\ UNCHANGED <<last_response, tracker_calls, orch_vars, score_vars>>

TrackerNext ==
    \/ call_parallel_progress_callback
    \/ call_update_progress
    \/ call_update_analyzer_completion
    \/ tracked_run_completes
    \/ tracked_run_fails

SpecTracker == TrackerInit /\ [][TrackerNext]_vars

(***************************************************************************)
(* api/v1/analyze.py: the four endpoints and run_analysis_background.      *)
(* The server runs on one event loop: a coroutine is interleaved with      *)
(* others only where it awaits.  run_analysis_background does not await    *)
(* before line 308, so no request is served between its steps.             *)
(***************************************************************************)
FileIds == {"f1", "f2", "f3"}

\* the ids for which a file lies in the upload directory
UploadedFiles == {"f1", "f2"}

ErrUnexpectedKeyword ==
    <<"A","n","a","l","y","s","i","s","O","r","c","h","e","s","t","r","a",
      "t","o","r",".","a","n","a","l","y","z","e","_","f","i","l","e","(",
      ")"," ","g","o","t"," ","a","n"," ","u","n","e","x","p","e","c","t",
      "e","d"," ","k","e","y","w","o","r","d"," ","a","r","g","u","m","e",
      "n","t"," ","'","p","r","o","g","r","e","s","s","_","c","a","l","l",
      "b","a","c","k","'">>

ErrFileRead ==
    <<"[","E","r","r","n","o"," ","2","]"," ","N","o"," ","s","u","c","h",
      " ","f","i","l","e"," ","o","r"," ","d","i","r","e","c","t","o","r",
      "y">>

api_response(op, file_id, status_code, success) ==
    [op |-> op, file_id |-> file_id, status_code |-> status_code, success |-> success,
     status |-> "none", progress |-> 0, result |-> None]

Init ==
    /\ OrchIdle
    /\ ScoreIdle
    /\ ApiIdle

\* no run stands between two of its steps
NoRunMidFlight ==
    \A r \in 1..Len(runs) : runs[r].pc \in {"queued", "done", "crashed"}

\* start() without the check of lines 55-63: a record is stored and a run
\* scheduled whatever the status of the record already there
api_analyze_file_unchecked(file_id) ==
    /\ NoRunMidFlight
    /\ IF file_id \notin UploadedFiles
       THEN /\ last_response' = api_response("start", file_id, 404, FALSE)
            /\ UNCHANGED <<analysis_status_store, runs>>
       ELSE /\ Len(runs) < MaxRuns
            /\ analysis_status_store' =
                  put(analysis_status_store, file_id, status_record("pending", 0, MsgQueued))
            /\ runs' = Append(runs, background_run(file_id, "queued", initial_progress_state))
            /\ last_response' = api_response("start", file_id, 200, TRUE)
    /\ UNCHANGED <<tracker_calls, orch_vars, score_vars>>

\* POST /analyze/{file_id}
api_analyze_file(file_id) ==
    /\ NoRunMidFlight
    /\ IF file_id \notin UploadedFiles
       THEN /\ last_response' = api_response("start", file_id, 404, FALSE)
            /\ UNCHANGED <<analysis_status_store, runs>>
       ELSE IF /\ file_id \in DOMAIN analysis_status_store
               /\ analysis_status_store[file_id].status \in {"pending", "running"}
       THEN /\ last_response' = api_response("start", file_id, 200, FALSE)
            /\ UNCHANGED <<analysis_status_store, runs>>
       ELSE /\ Len(runs) < MaxRuns
            /\ analysis_status_store' =
                  put(analysis_status_store, file_id, status_record("pending", 0, MsgQueued))
            /\ runs' = Append(runs, background_run(file_id, "queued", initial_progress_state))
            /\ last_response' = api_response("start", file_id, 200, TRUE)
    /\ UNCHANGED <<tracker_calls, orch_vars, score_vars>>

\* GET /analyze/{file_id}/status
get_analysis_status(file_id) ==
    /\ NoRunMidFlight
    /\ last_response' =
          IF file_id \notin DOMAIN analysis_status_store
          THEN api_response("status", file_id, 404, FALSE)
          ELSE [api_response("status", file_id, 200, TRUE) EXCEPT
                   !.status = analysis_status_store[file_id].status,
                   !.progress = analysis_status_store[file_id].progress]
    /\ UNCHANGED <<analysis_status_store, runs, tracker_calls, orch_vars, score_vars>>

\* GET /analyze/{file_id}/result
get_analysis_result(file_id) ==
    /\ NoRunMidFlight
    /\ last_response' =
          IF file_id \notin DOMAIN analysis_status_store
          THEN api_response("result", file_id, 404, FALSE)
          ELSE IF analysis_status_store[file_id].status # "completed"
          THEN [api_response("result", file_id, 200, FALSE) EXCEPT
                   !.status = analysis_status_store[file_id].status]
          ELSE IF IsNone(analysis_status_store[file_id].result)
          THEN api_response("result", file_id, 500, FALSE)
          ELSE [api_response("result", file_id, 200, TRUE) EXCEPT
                   !.status = "completed",
                   !.result = analysis_status_store[file_id].result]
    /\ UNCHANGED <<analysis_status_store, runs, tracker_calls, orch_vars, score_vars>>

\* the record removed if there is one, and success answered either way
cancel_analysis_lenient(file_id) ==
    /\ NoRunMidFlight
    /\ analysis_status_store' = delete(analysis_status_store, file_id)
    /\ last_response' = api_response("cancel", file_id, 200, TRUE)
    /\ UNCHANGED <<runs, tracker_calls, orch_vars, score_vars>>

\* DELETE /analyze/{file_id}
cancel_analysis(file_id) ==
    /\ NoRunMidFlight
    /\ IF file_id \notin DOMAIN analysis_status_store
       THEN /\ last_response' = api_response("cancel", file_id, 404, FALSE)
            /\ UNCHANGED analysis_status_store
       ELSE /\ analysis_status_store' = delete(analysis_status_store, file_id)
            /\ last_response' = api_response("cancel", file_id, 200, TRUE)
    /\ UNCHANGED <<runs, tracker_calls, orch_vars, score_vars>>

\* the except clause of lines 332-341 for run r, whose max_progress stands at
\* the value given when the exception is raised: the record is marked failed,
\* or, when the record is gone, the update raises KeyError out of the task
run_except(r, max_progress, error) ==
    IF runs[r].file_id \in DOMAIN analysis_status_store
    THEN /\ analysis_status_store' =
               [analysis_status_store EXCEPT
                   ![runs[r].file_id] = failed_record(analysis_status_store[runs[r].file_id], error)]
         /\ runs' = [runs EXCEPT ![r].pc = "done",
                                 ![r].progress_state.max_progress = max_progress]
    ELSE /\ runs' = [runs EXCEPT ![r].pc = "crashed",
                                 ![r].progress_state.max_progress = max_progress]
         /\ UNCHANGED analysis_status_store

\* lines 238-247: the task starts and marks its record running at 5
run_analysis_background_start(r) ==
    /\ NoRunMidFlight
    /\ runs[r].pc = "queued"
    /\ IF runs[r].file_id \in DOMAIN analysis_status_store
       THEN /\ analysis_status_store' =
                  [analysis_status_store EXCEPT
                      ![runs[r].file_id] =
                          [@ EXCEPT !.status = "running", !.progress = 5,
                                    !.message = MsgInitializing]]
            /\ runs' = [runs EXCEPT ![r].pc = "reading",
                                    ![r].progress_state.max_progress = 5]
       ELSE run_except(r, 5, <<"'">> \o <<runs[r].file_id>> \o <<"'">>)
    /\ UNCHANGED <<last_response, tracker_calls, orch_vars, score_vars>>

\* lines 249-276: the file is read (or open raises) and the record moves to 10
run_analysis_background_read(r) ==
    /\ runs[r].pc = "reading"
    /\ \E readable \in BOOLEAN :
          IF readable
          THEN /\ analysis_status_store' =
                     [analysis_status_store EXCEPT
                         ![runs[r].file_id] =
                             [@ EXCEPT !.progress = 10, !.message = MsgStartingParallel]]
               /\ runs' = [runs EXCEPT ![r].pc = "calling",
                                       ![r].progress_state.max_progress = 10]
          ELSE run_except(r, runs[r].progress_state.max_progress, ErrFileRead)
    /\ UNCHANGED <<last_response, tracker_calls, orch_vars, score_vars>>

\* lines 278-313: analyze_file is called with the keyword progress_callback,
\* which AnalysisOrchestrator.analyze_file (analysis_orchestrator.py:44-45)
\* does not accept: the call raises TypeError before the orchestrator runs
run_analysis_background_call(r) ==
    /\ runs[r].pc = "calling"
    /\ run_except(r, runs[r].progress_state.max_progress, ErrUnexpectedKeyword)
    /\ UNCHANGED <<last_response, tracker_calls, orch_vars, score_vars>>

Next ==
    \/ \E file_id \in FileIds : api_analyze_file(file_id)
    \/ \E file_id \in FileIds : get_analysis_status(file_id)
    \/ \E file_id \in FileIds : get_analysis_result(file_id)
    \/ \E file_id \in FileIds : cancel_analysis(file_id)
    \/ \E r \in 1..Len(runs) : run_analysis_background_start(r)
    \/ \E r \in 1..Len(runs) : run_analysis_background_read(r)
    \/ \E r \in 1..Len(runs) : run_analysis_background_call(r)

Spec == Init /\ [][Next]_vars

(***************************************************************************)
(* Properties of analyze_file                                              *)
(***************************************************************************)
Returned == opc = "returned"

\* the analyzers whose task raised into gather
RaisedCategories == { c \in CategorySet : results[c].kind = "exception" }

\* every issue the other analyzers returned has the strings the report model requires
SiblingsWellFormed ==
    \A c \in CategorySet \ RaisedCategories :
        \A i \in 1..Len(results[c].issues) : valid_issue(results[c].issues[i])

FallbackEntryOf(c) ==
    /\ report.score_breakdown[c].score = 0
    /\ report.score_breakdown[c].issue_count = 1
    /\ report.score_breakdown[c].severity_breakdown["critical"] = 1
    /\ Len(analysis_results[c].issues) = 1
    /\ analysis_results[c].issues[1].severity = "critical"
    /\ analysis_results[c].issues[1].title = Some(FallbackTitle(c))

AggregationFails ==
    \E c \in CategorySet : \E i \in 1..Len(analysis_results[c].issues) :
        ~valid_issue(analysis_results[c].issues[i])

MinimalReport ==
    /\ report.overall_score = 0
    /\ report.total_issues = 1
    /\ report.critical_issues = 1
    /\ Len(report.issues) = 1
    /\ report.issues[1].severity = "critical"
    /\ report.issues[1].title = Some(SystemErrorTitle)
    /\ report.summary.kind = "failed"
    /\ ~IsNone(report.summary.error)

\* C3: analyze_file never raises to its caller; it always returns a report,
\* and when aggregation fails the report is the minimal one: overall_score 0,
\* one critical system error issue (total_issues = critical_issues = 1) and
\* the error text in the summary.
C3_NeverRaisesMinimalReport ==
    /\ opc # "raised"
    /\ Returned => report.kind \in {"aggregated", "error"}
    /\ (Returned /\ AggregationFails) => MinimalReport

C3_Witness == Returned /\ AggregationFails /\ report.kind = "error"

\* C5: the issue keys of the entries of a returned report's issues list are
\* pairwise distinct.
C5_ReportKeysDistinct ==
    Returned =>
        \A i, j \in 1..Len(report.issues) :
            i # j => issue_key_of(report.issues[i]) # issue_key_of(report.issues[j])

\* two issues of the analyzers' results collided on their key
KeyCollision ==
    \E c, d \in CategorySet :
        \E i \in 1..Len(analysis_results[c].issues), j \in 1..Len(analysis_results[d].issues) :
            /\ <<c, i>> # <<d, j>>
            /\ issue_key_of(analysis_results[c].issues[i]) = issue_key_of(analysis_results[d].issues[j])

C5_Witness ==
    Returned /\ report.kind = "aggregated" /\ KeyCollision /\ Len(report.issues) >= 2

\* the first issue, in the order of the loop, that has the key
first_seen(issue_key) ==
    LET refs == flatten_refs(analysis_results, Categories)
        k == CHOOSE n \in 1..Len(refs) :
                 /\ issue_key_of(issue_at(analysis_results, refs[n])) = issue_key
                 /\ \A m \in 1..(n - 1) : issue_key_of(issue_at(analysis_results, refs[m])) # issue_key
    IN issue_at(analysis_results, refs[k])

\* the categories an entry of the report's issues list carries
reported_categories(entry) ==
    IF IsNone(entry.category) THEN {} ELSE {Get(entry.category)}

\* C6 as stated: every issue an analyzer returned is represented in the report
\* by one entry with the same key, which keeps the title, description and
\* recommendation of the first-seen issue and carries the category of every
\* analyzer that reported the key.
C6_MergedEntryCarriesAllCategories ==
    (Returned /\ report.kind = "aggregated") =>
        \A c \in CategorySet : \A i \in 1..Len(analysis_results[c].issues) :
            LET issue_key == issue_key_of(analysis_results[c].issues[i])
            IN \E k \in 1..Len(report.issues) :
                  /\ issue_key_of(report.issues[k]) = issue_key
                  /\ report.issues[k].title = first_seen(issue_key).title
                  /\ report.issues[k].description = first_seen(issue_key).description
                  /\ report.issues[k].recommendation = first_seen(issue_key).recommendation
                  /\ c \in reported_categories(report.issues[k])

\* the issues of a deduplicated list, handed back to the loop under the
\* category each one was collected for
regroup(issues) ==
    [c \in CategorySet |->
        Result("result", FALSE, 0, SelectSeq(issues, LAMBDA x : x.category = Some(c)), <<>>, None)]

\* C7: the deduplication loop applied to its own output yields the same list,
\* with the same entries in the same order.
C7_DeduplicationIdempotent ==
    Returned => materialize(deduplicate(regroup(all_issues))) = all_issues

C7_Witness ==
    /\ Returned
    /\ KeyCollision
    /\ Len(all_issues) >= 3
    /\ \E k \in 1..Len(all_issues) : ~IsNone(all_issues[k].categories)

\* C8: in a returned report no issue of a lower-ranked severity precedes one
\* of a higher-ranked severity (critical, high, medium, low).
C8_IssuesSortedBySeverity ==
    Returned =>
        \A i, j \in 1..Len(report.issues) :
            i < j => severity_order(report.issues[i].severity)
                        <= severity_order(report.issues[j].severity)

\* the merged list was out of order before the sort
C8_Witness ==
    /\ Returned
    /\ report.kind = "aggregated"
    /\ \E i, j \in 1..Len(all_issues) :
          /\ i < j
          /\ all_issues[i].severity = "low"
          /\ all_issues[j].severity = "critical"

\* C10 as stated: the overall_score of every returned report lies in [0,100].
C10_OverallScoreInRange ==
    Returned => report.overall_score \in 0..100

(***************************************************************************)
(* Properties of _calculate_overall_score                                  *)
(***************************************************************************)
input_score(c) == IF IsNone(score_inputs[c]) THEN 0 ELSE Get(score_inputs[c])

\* ten times the weighted sum 0.30*security + 0.30*code_quality + 0.40*ui_ux
TenfoldWeightedSum ==
    3 * input_score("security") + 3 * input_score("code_quality") + 4 * input_score("ui_ux")

AllScored == \A c \in CategorySet : ~IsNone(score_inputs[c])

\* C9: overall_score is the weighted sum 0.30*security + 0.30*code_quality +
\* 0.40*ui_ux rounded to a nearest integer (when the sum lies halfway between
\* two integers the binary floating-point sum decides which one), for all
\* score triples; the scores 80, 90, 70 give 79.
C9_OverallScoreIsRoundedWeightedSum ==
    (~IsNone(score_output) /\ AllScored) =>
        /\ 10 * Get(score_output) - TenfoldWeightedSum \in -5..5
        /\ (score_inputs = [c \in CategorySet |->
                               IF c = "security" THEN Some(80)
                               ELSE IF c = "code_quality" THEN Some(90) ELSE Some(70)])
              => Get(score_output) = 79

C9_Witness ==
    /\ score_inputs["security"] = Some(80)
    /\ score_inputs["code_quality"] = Some(90)
    /\ score_inputs["ui_ux"] = Some(70)
    /\ score_output = Some(79)

(***************************************************************************)
(* Properties of the progress callbacks                                    *)
(***************************************************************************)
\* C1 as stated: over any sequence of report() and completed() calls of one
\* run, the progress stored in the status record never decreases from one
\* state to the next, except in the step where the run fails and the progress
\* is reset to 0.
C1_ProgressNeverDecreases ==
    [][ analysis_status_store'[TrackedFile].status # "failed"
          => analysis_status_store'[TrackedFile].progress
                >= analysis_status_store[TrackedFile].progress ]_vars

(***************************************************************************)
(* Properties of the endpoints and the background run                      *)
(***************************************************************************)
\* run r went as far as calling the orchestrator and has ended
RanAnalysis(r) ==
    /\ runs[r].pc = "done"
    /\ runs[r].progress_state.max_progress >= 10

\* r is the latest run scheduled for its file, whose record is still stored
OwnsRecord(r) ==
    /\ runs[r].file_id \in DOMAIN analysis_status_store
    /\ \A q \in (r + 1)..Len(runs) : runs[q].file_id # runs[r].file_id

\* C4 as stated: a run launched by start() that reached the analysis ends with
\* its record completed at progress 100 and holding the report that result()
\* returns with success; it does not end failed.
C4_RunEndsCompleted ==
    \A r \in 1..Len(runs) :
        (RanAnalysis(r) /\ OwnsRecord(r)) =>
            /\ analysis_status_store[runs[r].file_id].status = "completed"
            /\ analysis_status_store[runs[r].file_id].progress = 100
            /\ ~IsNone(analysis_status_store[runs[r].file_id].result)

(***************************************************************************)
(* Properties of update_analyzer_completion                                *)
(***************************************************************************)
\* the step is a call of update_analyzer_completion, made directly or through
\* parallel_progress_callback: nothing else changes the count
CompletionStep ==
    runs'[1].progress_state.analyzers_completed # runs[1].progress_state.analyzers_completed

\* target is 10 + floor(completed / total * 80)
IsProgressTarget(target, completed, total) ==
    /\ total * (target - 10) <= 80 * completed
    /\ 80 * completed < total * (target - 10) + total

\* C11: a completion raises analyzers_completed by exactly one and computes
\* the target 10 + floor(analyzers_completed / total_analyzers * 80) from the
\* new count, which becomes the stored progress and max_progress when it
\* exceeds max_progress and changes neither otherwise; with 2 of 3 analyzers
\* completed the target is 63.
C11_CompletionTarget ==
    [][ CompletionStep =>
          LET before == runs[1].progress_state
              after == runs'[1].progress_state
          IN /\ after.analyzers_completed = before.analyzers_completed + 1
             /\ after.total_analyzers = before.total_analyzers
             /\ \E target \in 10..200 :
                   /\ IsProgressTarget(target, after.analyzers_completed, after.total_analyzers)
                   /\ after.analyzers_completed = 2 => target = 63
                   /\ IF target > before.max_progress
                      THEN /\ after.max_progress = target
                           /\ analysis_status_store'[TrackedFile].progress = target
                      ELSE /\ after.max_progress = before.max_progress
                           /\ analysis_status_store'[TrackedFile].progress
                                 = analysis_status_store[TrackedFile].progress ]_vars

C11_Witness ==
    /\ runs[1].progress_state.analyzers_completed = 2
    /\ runs[1].progress_state.max_progress = 63
    /\ analysis_status_store[TrackedFile].progress = 63
    /\ analysis_status_store[TrackedFile].status = "running"

\* the message with which an analyzer's completion reaches the callback
completion_message(analyzer_name) ==
    IF analyzer_name = SecurityName THEN CbSecurityCompleted
    ELSE IF analyzer_name = CodeQualityName THEN CbCodeQualityCompleted
    ELSE CbUIUXCompleted

\* the orders in which the three analyzers can complete
CompletionOrders ==
    { order \in [1..3 -> AnalyzerNames] : \A i, j \in 1..3 : i # j => order[i] # order[j] }

\* the progress stored after each of three completions delivered in the order
progress_values(tr, order) ==
    LET t1 == parallel_progress_callback(tr, 50, completion_message(order[1]))
        t2 == parallel_progress_callback(t1, 50, completion_message(order[2]))
        t3 == parallel_progress_callback(t2, 50, completion_message(order[3]))
    IN <<t1.record.progress, t2.record.progress, t3.record.progress>>

FreshTracker ==
    /\ runs[1].progress_state.analyzers_completed = 0
    /\ runs[1].progress_state.max_progress = 10

\* C12: from every state of a run, the three completions delivered in any of
\* the six orders store the same sequence of progress values, so the value
\* after the k-th completion does not depend on which analyzer completed; a
\* run that stands at 10 with no completion yet stores 36, 63, 90.
C12_ProgressIndependentOfOrder ==
    runs[1].pc = "analyzing" =>
        /\ \A o1, o2 \in CompletionOrders :
               progress_values(tracker(1), o1) = progress_values(tracker(1), o2)
        /\ FreshTracker =>
               \A order \in CompletionOrders : progress_values(tracker(1), order) = <<36, 63, 90>>

\* the three analyzers have completed, Security last
C12_Witness ==
    /\ runs[1].progress_state.analyzers_completed = 3
    /\ analysis_status_store[TrackedFile].progress = 90
    /\ prefix(analysis_status_store[TrackedFile].message, Len(SecurityName)) = SecurityName

(***************************************************************************)
(* Properties of the end of a tracked run                                  *)
(***************************************************************************)
\* C13: a record whose run raised has status failed, progress 0 and the
\* failure text, prefixed 'Analysis failed: ', as its message and as its
\* error, whatever progress the run had stored before it raised.
C13_FailureResetsProgress ==
    analysis_status_store[TrackedFile].status = "failed" =>
        /\ analysis_status_store[TrackedFile].progress = 0
        /\ analysis_status_store[TrackedFile].message = MsgFailedPrefix \o ErrAnalysis
        /\ analysis_status_store[TrackedFile].error = Some(ErrAnalysis)
        /\ IsNone(analysis_status_store[TrackedFile].result)

\* the run had stored at least two completions' progress before it raised
C13_Witness ==
    /\ analysis_status_store[TrackedFile].status = "failed"
    /\ analysis_status_store[TrackedFile].progress = 0
    /\ runs[1].progress_state.max_progress >= 63
    /\ runs[1].pc = "done"

(***************************************************************************)
(* Properties of the status registry                                       *)
(***************************************************************************)
\* the step is a start() that stores a new record for the id (lines 66-70)
NewRecord(file_id) ==
    /\ Len(runs') = Len(runs) + 1
    /\ runs'[Len(runs')].file_id = file_id

LifecycleMoves ==
    { <<"pending", "running">>, <<"running", "completed">>, <<"running", "failed">> }

\* C14 as stated: the status of a stored record changes only from pending to
\* running and from running to completed or failed, so a completed or failed
\* record keeps its status for as long as it is stored; a record that start()
\* newly stores begins its own lifecycle.
C14_LifecycleOnlyForward ==
    [][ \A file_id \in FileIds :
          ( /\ file_id \in DOMAIN analysis_status_store
            /\ file_id \in DOMAIN analysis_status_store'
            /\ ~NewRecord(file_id)
            /\ analysis_status_store'[file_id].status # analysis_status_store[file_id].status )
          => <<analysis_status_store[file_id].status,
               analysis_status_store'[file_id].status>> \in LifecycleMoves ]_vars

\* run r executes one of its steps
RunStep(r) == runs'[r].pc # runs[r].pc

\* no earlier run was scheduled for the file of run r
FirstForFile(r) == \A q \in 1..(r - 1) : runs[q].file_id # runs[r].file_id

\* cancel() removed the record start() had stored for run r while r had not
\* ended: the record is gone, or start() has since been accepted again for the
\* id, which a pending or running record would have refused
RecordCancelled(r) ==
    /\ FirstForFile(r)
    /\ runs[r].pc \notin {"done", "crashed"}
    /\ \/ runs[r].file_id \notin DOMAIN analysis_status_store
       \/ \E q \in (r + 1)..Len(runs) : runs[q].file_id = runs[r].file_id

\* C15 as stated: once cancel() has removed the record of a run that has not
\* ended, no step of that run changes the status registry: it creates no
\* record for the id and stores neither progress nor an outcome.
C15_CancelledRunIsDiscarded ==
    [][ \A r \in 1..Len(runs) :
          (RunStep(r) /\ RecordCancelled(r)) =>
              analysis_status_store' = analysis_status_store ]_vars

\* the step answers a request: last_response' is the answer
Answered(op) == last_response' # last_response /\ last_response'.op = op

NotFoundUnchanged ==
    /\ last_response'.status_code = 404
    /\ ~last_response'.success
    /\ analysis_status_store' = analysis_status_store
    /\ runs' = runs

ReservedValues == {92, 95, 100}

\* the progress values a caller may report
ReportedValues == 0..125

UnparsableResponse == [kind |-> "unparsable", issues |-> <<>>, score |-> None]

\* what an analyzer returns for an unparsable answer: no issue and the one
\* recommendation of the parser's fallback structure
ParsingErrorOutcome(result) ==
    /\ result.kind = "result"
    /\ result.issues = <<>>
    /\ Len(result.recommendations) = 1
    /\ result.recommendations[1].priority = "high"
    /\ result.recommendations[1].title = "Analysis Parsing Error"

C19_StoredProgressInRange ==
    analysis_status_store[TrackedFile].progress \in 0..100

(***************************************************************************)
(* Properties of the wait for the analyzers                                *)
(***************************************************************************)
PendingCategories == { c \in CategorySet : results[c].kind = "pending" }

\* C20: while any analyzer is pending, analyze_file is still waiting: no
\* result has been taken over, no issue merged and no report returned, also
\* when another analyzer has already raised; a returned report was built
\* when each of the three analyzers had returned or raised.
C20_AggregationAfterAllResolved ==
    /\ PendingCategories # {} =>
          /\ opc = "gather"
          /\ report = NoReport
          /\ all_issues = <<>>
          /\ \A c \in CategorySet : analysis_results[c] = Pending
    /\ Returned =>
          /\ \A c \in CategorySet : results[c].kind \in {"result", "exception"}
          /\ report # NoReport

\* security raised, and the report still holds what ui_ux found
C20_Witness ==
    /\ Returned
    /\ report.kind = "aggregated"
    /\ results["security"].kind = "exception"
    /\ results["ui_ux"].kind = "result"
    /\ Len(results["ui_ux"].issues) > 0
    /\ report.score_breakdown["ui_ux"].issue_count > 0
    /\ report.score_breakdown["security"].issue_count = 1

(***************************************************************************)
(* Properties of the reports a run receives from the orchestrator          *)
(***************************************************************************)
\* C21 as stated: a run that has called the orchestrator and ended has been
\* told of the completion of each of its analyzers: analyzers_completed
\* equals total_analyzers and max_progress has reached 90.
C21_EveryAnalyzerReported ==
    \A r \in 1..Len(runs) :
        RanAnalysis(r) =>
            /\ runs[r].progress_state.analyzers_completed
                  = runs[r].progress_state.total_analyzers
            /\ runs[r].progress_state.max_progress >= 90

(***************************************************************************)
(* Properties of the scores the orchestrator reads                         *)
(***************************************************************************)
\* the score the claim expects for a category: the one the result carries,
\* or else the one the deduction rule gives for the result's issues
expected_score(result) ==
    IF result.has_score THEN result.score ELSE _calculate_score(result.issues)

Unscored == { c \in CategorySet : results[c].kind = "result" /\ ~results[c].has_score }

\* C22 as stated: when an analyzer returned a result without a score, the
\* report's score_breakdown gives that category the score computed from the
\* result's issues by the deduction rule, and overall_score is the rounded
\* weighted sum taken with that score.
C22_MissingScoreComputedFromIssues ==
    (Returned /\ report.kind = "aggregated" /\ Unscored # {}) =>
        /\ \A c \in Unscored :
              report.score_breakdown[c].score = _calculate_score(results[c].issues)
        /\ 10 * report.overall_score
              - ( 3 * expected_score(analysis_results["security"])
                  + 3 * expected_score(analysis_results["code_quality"])
                  + 4 * expected_score(analysis_results["ui_ux"]) ) \in -5..5

(***************************************************************************)
(* Properties of _calculate_score                                          *)
(***************************************************************************)
severity_count(sevs) ==
    Cardinality({ i \in 1..Len(scored_issues) : scored_issues[i].severity \in sevs })

\* d: the sum of the deductions 20, 10, 5, 2 over the issues passed in
DeductionSum ==
    20 * severity_count({"critical"}) + 10 * severity_count({"high", "High"})
    + 5 * severity_count({"medium"}) + 2 * severity_count({"low"})

\* twice max(0, 100 - d'), where d' = d up to 50 and 50 + (d - 50)/2 beyond
TwiceFlooredScore ==
    LET twice == IF DeductionSum <= 50 THEN 200 - 2 * DeductionSum ELSE 150 - DeductionSum
    IN IF twice > 0 THEN twice ELSE 0

\* C23: the score of an issue list is max(0, 100 - d') rounded to the nearest
\* integer (a half goes to the even neighbour, as round() does), with d the
\* sum of the deductions and d' = d up to 50, 50 + (d - 50)/2 beyond; it lies
\* in [0,100], and the list with one more issue of any severity never scores
\* higher.
C23_CategoryScore ==
    /\ 2 * issue_score - TwiceFlooredScore \in -1..1
    /\ (TwiceFlooredScore % 2 = 1) => issue_score % 2 = 0
    /\ issue_score \in 0..100
    /\ \A sev \in SeverityInputs :
          _calculate_score(Append(scored_issues, [severity |-> sev])) <= issue_score

\* deductions of 53 are halved beyond 50: 48.5, rounded to 48
C23_Witness ==
    /\ DeductionSum = 53
    /\ issue_score = 48

(***************************************************************************)
(* Properties of parallel_progress_callback                                *)
(***************************************************************************)
\* a message that reports the completion of one of the three analyzers
IsAnalyzerCompletion(message) ==
    /\ contains(lower(message), WordCompleted)
    /\ \E word \in {WordSecurity, WordCodeQuality, WordUISlashUX, WordUISpaceUX} :
          contains(lower(message), word)

\* the progress values strictly between 15 and 92
MiddleValues == 16..91

\* C24: from every state of a run, a progress signal that is no analyzer
\* completion and whose value lies strictly between 15 and 92 changes nothing
\* but the status message: the stored progress stays where it was, at
\* max_progress, and max_progress, analyzers_completed, the lifecycle status,
\* the result and the error are unchanged; a message without the word
\* "completed" becomes the status message.
C24_MiddleSignalChangesOnlyMessage ==
    runs[1].pc = "analyzing" =>
        \A progress \in MiddleValues, message \in CallbackMessages :
            ~IsAnalyzerCompletion(message) =>
                LET tr == tracker(1)
                    out == parallel_progress_callback(tr, progress, message)
                IN /\ out.progress_state = tr.progress_state
                   /\ out.record.progress = tr.progress_state.max_progress
                   /\ out.record = [tr.record EXCEPT !.message = out.record.message]
                   /\ (~contains(lower(message), WordCompleted) =>
                          out.record.message = message)

\* two analyzers have completed (63) and a start message reported with 50 has
\* become the status message: the stored progress is still 63
C24_Witness ==
    /\ runs[1].pc = "analyzing"
    /\ runs[1].progress_state.max_progress = 63
    /\ runs[1].progress_state.analyzers_completed = 2
    /\ analysis_status_store[TrackedFile].progress = 63
    /\ analysis_status_store[TrackedFile].message = CbStarting

(***************************************************************************)
(* Properties of the order of the merged issues                            *)
(***************************************************************************)
\* the order in which the categories are merged
MergeOrder == <<"security", "code_quality", "ui_ux">>

\* where an entry was first met: the rank of its category in the merge order
\* and its first position in the issue list of that category's analyzer
origin(entry) ==
    LET category == Get(entry.category)
        issues == analysis_results[category].issues
    IN << CHOOSE k \in 1..Len(MergeOrder) : MergeOrder[k] = category,
          CHOOSE n \in 1..Len(issues) :
              /\ key_fields(issues[n]) = key_fields(entry)
              /\ \A m \in 1..(n - 1) : key_fields(issues[m]) # key_fields(entry) >>

precedes(a, b) == a[1] < b[1] \/ (a[1] = b[1] /\ a[2] < b[2])

C26_ResultsUnchangedByAggregation ==
    Returned =>
        \A c \in CategorySet : analysis_results[c] = substitute_fallback(c, results[c])

(***************************************************************************)
(* Properties of _create_issue_key                                         *)
(***************************************************************************)
\* the first SnippetKeyLen characters of an issue's snippet, if it has one
snippet_head(issue) ==
    IF IsNone(issue.code_snippet) THEN None
    ELSE Some(prefix(Get(issue.code_snippet), SnippetKeyLen))

DifferInLineOrSnippet ==
    \/ key_pair[1].line_number # key_pair[2].line_number
    \/ snippet_head(key_pair[1]) # snippet_head(key_pair[2])

\* C27 as stated: two issues whose line numbers differ (one may have none) or
\* whose snippets differ within their first 50 characters get different issue
\* keys, whatever their titles, and both are entries of the report.
C27_LineOrSnippetSeparatesKeys ==
    (~IsNone(key_out) /\ DifferInLineOrSnippet) =>
        /\ Get(key_out).first # Get(key_out).second
        /\ Len(Get(key_out).issues) = 2

(***************************************************************************)
(* Properties of the ownership of a status record                          *)
(***************************************************************************)
\* a later start() has stored a new record for the file of run r
Superseded(r) == \E q \in (r + 1)..Len(runs) : runs[q].file_id = runs[r].file_id

\* C28 as stated: a record is written only by the run scheduled by the start()
\* that stored it: no step of a run whose record was cancelled and stored anew
\* by a later start() changes the status, progress, message, result or error
\* of the new record.
C28_RecordWrittenOnlyByItsRun ==
    [][ \A r \in 1..Len(runs) :
          ( /\ RunStep(r)
            /\ Superseded(r)
            /\ runs[r].file_id \in DOMAIN analysis_status_store )
          => /\ runs[r].file_id \in DOMAIN analysis_status_store'
             /\ analysis_status_store'[runs[r].file_id]
                   = analysis_status_store[runs[r].file_id] ]_vars

(***************************************************************************)
(* Properties of start()                                                   *)
(***************************************************************************)
\* the step serves a start request for the id: the answer is a start answer
\* and no run has moved
StartStep(file_id) ==
    /\ last_response'.op = "start"
    /\ last_response'.file_id = file_id
    /\ Len(runs') >= Len(runs)
    /\ \A r \in 1..Len(runs) : runs'[r] = runs[r]

C30_RunHandlesEveryFailure ==
    \A r \in 1..Len(runs) : runs[r].pc # "crashed"

====
